---- MODULE Spec2Model ----
(***************************************************************************)
(* Model of the MsalAuthenticationProvider of                              *)
(* 2-Authorization-I/1-call-graph/App/graph.js: the token provider that    *)
(* the Graph client calls before every request.  getAccessToken() returns  *)
(* a promise whose async executor first awaits acquireTokenSilent and, on  *)
(* an InteractionRequiredAuthError, falls back to acquireTokenPopup or     *)
(* acquireTokenRedirect.  The MSAL object (myMSALObj) is the environment:  *)
(* it settles every request with any value or error.                       *)
(***************************************************************************)
EXTENDS Integers, Sequences, FiniteSets

\* ---------------------------------------------------------------- bounds
\* number of getAccessToken() calls made on the one adapter
MaxCalls == 2

Calls == 1..MaxCalls

\* ------------------------------------------------------- JavaScript values
Undefined == [type |-> "undefined"]

Str(s) == [type |-> "string", val |-> s]

\* an AuthenticationResult-like object carrying an accessToken property
AuthResult(tok) == [type |-> "object", accessToken |-> tok]

JsError(name, message) == [type |-> "error", name |-> name, message |-> message]

\* values an accessToken property can hold
TokenValues == {Undefined, Str(""), Str("abc"), Str("xyz")}

\* values an MSAL acquire* promise can be fulfilled with
ResponseValues == {Undefined} \cup {AuthResult(t) : t \in TokenValues}

\* errors an MSAL acquire* promise can be rejected with
ErrorValues == {JsError("InteractionRequiredAuthError", "interaction_required"),
                JsError("BrowserAuthError", "popup_window_error")}

Fulfilled(v) == [status |-> "fulfilled", value |-> v]

Raised(e) == [status |-> "rejected", value |-> e]

\* every way a request to the MSAL object can settle
Outcomes == {Fulfilled(v) : v \in ResponseValues} \cup {Raised(e) : e \in ErrorValues}

\* JavaScript truthiness of the values above
Truthy(v) == v.type \notin {"undefined"} /\ ~(v.type = "string" /\ v.val = "")

\* error instanceof msal.InteractionRequiredAuthError
InstanceOfInteractionRequired(error) ==
    error.type = "error" /\ error.name = "InteractionRequiredAuthError"

\* msal.InteractionType members used by the switch, and one it does not handle
Popup == "popup"

Redirect == "redirect"

InteractionTypes == {Popup, Redirect, "silent"}

\* ------------------------------------------------------------ configuration
Accounts == {"U1", "U2"}

ScopeSets == {<<"User.Read">>, <<"User.Read", "Mail.Read">>}

ProviderOptionsSet ==
    [account : Accounts, scopes : ScopeSets, interactionType : InteractionTypes]

\* the property a request object does not carry
Absent == "absent"

\* the promise returned by getAccessToken
Pending == [state |-> "pending", value |-> Undefined]

Resolved(v) == [state |-> "resolved", value |-> v]

Rejected(e) == [state |-> "rejected", value |-> e]

\* Error('Failed to acquire an access token')
AcquisitionError == JsError("Error", "Failed to acquire an access token")

VARIABLES
    providerOptions,  \* the argument the adapter was constructed with
    adapter,          \* the MsalAuthenticationProvider instance (this)
    pc,               \* per call: position of the async executor
    promise,          \* per call: the promise getAccessToken returned
    settleCount,      \* per call: number of resolve()/reject() invocations
    requests,         \* per call: requests it made to myMSALObj, in order
    outcomes          \* per call: how those requests settled, in order

vars == <<providerOptions, adapter, pc, promise, settleCount, requests, outcomes>>

\* variant: the constructor reads a misspelt option and keeps no scopes
MsalAuthenticationProvider_DropsScopes(options) ==
    [account         |-> options.account,
     scopes          |-> <<>>,
     interactionType |-> options.interactionType]

\* constructor(providerOptions)
MsalAuthenticationProvider(options) ==
    [account         |-> options.account,
     scopes          |-> options.scopes,
     interactionType |-> options.interactionType]

\* variant: the silent request leaves the account out
SilentRequest_NoAccount(this) ==
    [kind |-> "silent", account |-> Absent, scopes |-> this.scopes]

\* the argument of myMSALObj.acquireTokenSilent
SilentRequest(this) ==
    [kind |-> "silent", account |-> this.account, scopes |-> this.scopes]

\* variant: the popup request leaves the scopes out
PopupRequest_NoScopes(this) ==
    [kind |-> "popup", account |-> Absent, scopes |-> <<>>]

\* the argument of myMSALObj.acquireTokenPopup
PopupRequest(this) ==
    [kind |-> "popup", account |-> Absent, scopes |-> this.scopes]

\* the argument of myMSALObj.acquireTokenRedirect
RedirectRequest(this) ==
    [kind |-> "redirect", account |-> Absent, scopes |-> this.scopes]

\* What a run of the executor does up to its next await or its end:
\*   pc     where the executor stops
\*   settle the resolve()/reject() it invoked (Pending when none)
\*   issue  the requests it made to myMSALObj
Step(p, s, i) == [pc |-> p, settle |-> s, issue |-> i]

\* variant: the adapter answers from a token it kept, without asking MSAL
Begin_Cached(this) == Step("returned", Resolved(Str("abc")), <<>>)

\* variant: the call waits on a request another call made, issuing none
Begin_Coalesced(this) == Step("awaitSilent", Pending, <<>>)

\* variant: the popup request is made together with the silent one
Begin_Eager(this) ==
    Step("awaitSilent", Pending, <<SilentRequest(this), PopupRequest(this)>>)

\* new Promise(async (resolve, reject) => { ... await acquireTokenSilent
Begin(this) == Step("awaitSilent", Pending, <<SilentRequest(this)>>)

\* variant: the Redirect case rejects after starting the redirect
Catch_RedirectRejects(this, error) ==
    IF InstanceOfInteractionRequired(error)
    THEN CASE this.interactionType = Popup ->
                Step("awaitPopup", Pending, <<PopupRequest(this)>>)
           [] this.interactionType = Redirect ->
                Step("returned", Rejected(AcquisitionError), <<RedirectRequest(this)>>)
           [] OTHER ->
                Step("returned", Pending, <<>>)
    ELSE Step("returned", Pending, <<>>)

\* variant: an error that is not "interaction required" is passed to reject()
Catch_RejectsRaw(this, error) ==
    IF InstanceOfInteractionRequired(error)
    THEN CASE this.interactionType = Popup ->
                Step("awaitPopup", Pending, <<PopupRequest(this)>>)
           [] this.interactionType = Redirect ->
                Step("returned", Pending, <<RedirectRequest(this)>>)
           [] OTHER ->
                Step("returned", Pending, <<>>)
    ELSE Step("returned", Rejected(error), <<>>)

\* variant: the instanceof test is missing, every error falls back
Catch_AnyErrorFallsBack(this, error) ==
    CASE this.interactionType = Popup ->
           Step("awaitPopup", Pending, <<PopupRequest(this)>>)
      [] this.interactionType = Redirect ->
           Step("returned", Pending, <<RedirectRequest(this)>>)
      [] OTHER ->
           Step("returned", Pending, <<>>)

\* variant: the default case falls back to the popup flow
Catch_DefaultPopup(this, error) ==
    IF InstanceOfInteractionRequired(error)
    THEN CASE this.interactionType = Redirect ->
                Step("returned", Pending, <<RedirectRequest(this)>>)
           [] OTHER ->
                Step("awaitPopup", Pending, <<PopupRequest(this)>>)
    ELSE Step("returned", Pending, <<>>)

\* variant: the redirect request is awaited like the popup request
Catch_RedirectAwaited(this, error) ==
    IF InstanceOfInteractionRequired(error)
    THEN CASE this.interactionType = Popup ->
                Step("awaitPopup", Pending, <<PopupRequest(this)>>)
           [] this.interactionType = Redirect ->
                Step("awaitPopup", Pending, <<RedirectRequest(this)>>)
           [] OTHER ->
                Step("returned", Pending, <<>>)
    ELSE Step("returned", Pending, <<>>)

\* the catch block of the executor
Catch(this, error) ==
    IF InstanceOfInteractionRequired(error)
    THEN CASE this.interactionType = Popup ->
                Step("awaitPopup", Pending, <<PopupRequest(this)>>)
           [] this.interactionType = Redirect ->
                Step("returned", Pending, <<RedirectRequest(this)>>)
           [] OTHER ->
                Step("returned", Pending, <<>>)
    ELSE Step("returned", Pending, <<>>)

\* variant: the test of response.accessToken is inverted
AfterSilent_Inverted(this, outcome) ==
    IF outcome.status = "fulfilled"
    THEN IF outcome.value.type # "object"
         THEN Catch(this, JsError("TypeError", "Cannot read properties of undefined"))
         ELSE IF ~Truthy(outcome.value.accessToken)
              THEN Step("returned", Resolved(outcome.value.accessToken), <<>>)
              ELSE Step("returned", Rejected(AcquisitionError), <<>>)
    ELSE Catch(this, outcome.value)

\* variant: an empty token is treated like an "interaction required" error
AfterSilent_EmptyFallsBack(this, outcome) ==
    IF outcome.status = "fulfilled"
    THEN IF outcome.value.type # "object"
         THEN Catch(this, JsError("TypeError", "Cannot read properties of undefined"))
         ELSE IF Truthy(outcome.value.accessToken)
              THEN Step("returned", Resolved(outcome.value.accessToken), <<>>)
              ELSE Catch(this, JsError("InteractionRequiredAuthError", "no_tokens_found"))
    ELSE Catch(this, outcome.value)

\* variant: after rejecting for an empty token the executor still falls back
AfterSilent_RejectThenPopup(this, outcome) ==
    IF outcome.status = "fulfilled"
    THEN IF outcome.value.type # "object"
         THEN Catch(this, JsError("TypeError", "Cannot read properties of undefined"))
         ELSE IF Truthy(outcome.value.accessToken)
              THEN Step("returned", Resolved(outcome.value.accessToken), <<>>)
              ELSE Step("awaitPopup", Rejected(AcquisitionError), <<PopupRequest(this)>>)
    ELSE Catch(this, outcome.value)

\* the try block after the awaited acquireTokenSilent has settled
AfterSilent(this, outcome) ==
    IF outcome.status = "fulfilled"
    THEN IF outcome.value.type # "object"
         THEN \* response.accessToken throws a TypeError inside the try
              Catch(this, JsError("TypeError", "Cannot read properties of undefined"))
         ELSE IF Truthy(outcome.value.accessToken)
              THEN Step("returned", Resolved(outcome.value.accessToken), <<>>)
              ELSE Step("returned", Rejected(AcquisitionError), <<>>)
    ELSE Catch(this, outcome.value)

\* the Popup case after the awaited acquireTokenPopup has settled; an error
\* here is thrown out of the catch block and rejects only the executor's own
\* promise, which nobody observes
AfterPopup(this, outcome) ==
    IF outcome.status = "fulfilled"
    THEN IF outcome.value.type # "object"
         THEN Step("threw", Pending, <<>>)
         ELSE IF Truthy(outcome.value.accessToken)
              THEN Step("returned", Resolved(outcome.value.accessToken), <<>>)
              ELSE Step("returned", Rejected(AcquisitionError), <<>>)
    ELSE Step("threw", Pending, <<>>)

\* resolve()/reject() of a promise: only the first invocation settles it
Settle(p, s) == IF p.state = "pending" THEN s ELSE p

Init ==
    /\ providerOptions \in ProviderOptionsSet
    /\ adapter = MsalAuthenticationProvider(providerOptions)
    /\ pc = [c \in Calls |-> "idle"]
    /\ promise = [c \in Calls |-> Pending]
    /\ settleCount = [c \in Calls |-> 0]
    /\ requests = [c \in Calls |-> <<>>]
    /\ outcomes = [c \in Calls |-> <<>>]

\* apply one run of the executor of call c
Run(c, step) ==
    /\ pc' = [pc EXCEPT ![c] = step.pc]
    /\ promise' = [promise EXCEPT ![c] = Settle(promise[c], step.settle)]
    /\ settleCount' = [settleCount EXCEPT
                         ![c] = IF step.settle = Pending THEN @ ELSE @ + 1]
    /\ requests' = [requests EXCEPT ![c] = @ \o step.issue]

\* the API client calls getAccessToken()
GetAccessToken(c) ==
    /\ pc[c] = "idle"
    /\ Run(c, Begin(adapter))
    /\ UNCHANGED <<providerOptions, adapter, outcomes>>

\* acquireTokenSilent settles and the executor resumes
SilentSettles(c) ==
    /\ pc[c] = "awaitSilent"
    /\ \E o \in Outcomes :
         /\ outcomes' = [outcomes EXCEPT ![c] = Append(@, o)]
         /\ Run(c, AfterSilent(adapter, o))
    /\ UNCHANGED <<providerOptions, adapter>>

\* acquireTokenPopup settles and the executor resumes
PopupSettles(c) ==
    /\ pc[c] = "awaitPopup"
    /\ \E o \in Outcomes :
         /\ outcomes' = [outcomes EXCEPT ![c] = Append(@, o)]
         /\ Run(c, AfterPopup(adapter, o))
    /\ UNCHANGED <<providerOptions, adapter>>

\* acquireTokenRedirect, which the executor did not await, settles
RedirectSettles(c) ==
    /\ pc[c] = "returned"
    /\ Len(requests[c]) = 2
    /\ requests[c][2].kind = "redirect"
    /\ Len(outcomes[c]) = 1
    /\ \E o \in {Fulfilled(Undefined)} \cup {Raised(e) : e \in ErrorValues} :
         outcomes' = [outcomes EXCEPT ![c] = Append(@, o)]
    /\ UNCHANGED <<providerOptions, adapter, pc, promise, settleCount, requests>>

Next ==
    \E c \in Calls :
        \/ GetAccessToken(c)
        \/ SilentSettles(c)
        \/ PopupSettles(c)
        \/ RedirectSettles(c)

Spec == Init /\ [][Next]_vars

\* ------------------------------------------------------------ vocabulary
Started(c) == pc[c] # "idle"

SilentDone(c) == Len(outcomes[c]) >= 1

\* a credential that is a non-empty string
NonEmptyCredential(v) == v.type = "string" /\ v.val # ""

\* the request returned a result object carrying a non-empty credential
ReturnedToken(o) ==
    /\ o.status = "fulfilled"
    /\ o.value.type = "object"
    /\ NonEmptyCredential(o.value.accessToken)

\* the request returned a result object carrying no credential, raising nothing
ReturnedEmpty(o) ==
    /\ o.status = "fulfilled"
    /\ o.value.type = "object"
    /\ o.value.accessToken \in {Str(""), Undefined}

RaisedInteractionRequired(o) ==
    /\ o.status = "rejected"
    /\ o.value.name = "InteractionRequiredAuthError"

RequestsOfKind(c, k) == {i \in 1..Len(requests[c]) : requests[c][i].kind = k}

\* the call made a popup request and that request has settled
PopupDone(c) == RequestsOfKind(c, "popup") = {2} /\ Len(outcomes[c]) = 2

\* the promise was rejected because an acquisition returned no token
AcquisitionFailed(c) ==
    /\ promise[c].state = "rejected"
    /\ promise[c].value.type = "error"
    /\ promise[c].value.message = "Failed to acquire an access token"

\* the promise was rejected with the error the popup flow raised
InteractiveAcquisitionFailed(c) ==
    /\ promise[c].state = "rejected"
    /\ PopupDone(c)
    /\ outcomes[c][2].status = "rejected"
    /\ promise[c].value = outcomes[c][2].value

\* ------------------------------------------------------------------ claims

\* C1: when the silent acquisition returns a non-empty credential, the call
\* resolves with exactly that credential and makes no popup or redirect
\* request, for every account, scope set and interactionType.
C1_SilentTokenResolves ==
    \A c \in Calls :
        (SilentDone(c) /\ ReturnedToken(outcomes[c][1])) =>
            /\ promise[c] = Resolved(outcomes[c][1].value.accessToken)
            /\ Len(requests[c]) = 1
            /\ RequestsOfKind(c, "popup") \cup RequestsOfKind(c, "redirect") = {}

C1_Witness ==
    /\ providerOptions =
         [account |-> "U1", scopes |-> <<"User.Read">>, interactionType |-> Popup]
    /\ \E c \in Calls :
         /\ outcomes[c] = <<Fulfilled(AuthResult(Str("abc")))>>
         /\ promise[c] = Resolved(Str("abc"))

\* C2: when the silent acquisition raises "interaction required", the type is
\* Popup and the popup flow raises an error, the promise is rejected with
\* that error (InteractiveAcquisitionFailed).
C2_PopupErrorRejects ==
    \A c \in Calls :
        (PopupDone(c) /\ outcomes[c][2].status = "rejected") =>
            InteractiveAcquisitionFailed(c)

\* C3: once the executor has finished and every request it made has settled,
\* the promise is settled: resolved with an access token or rejected with an
\* error, never left pending.
C3_PromiseSettles ==
    \A c \in Calls :
        (pc[c] \in {"returned", "threw"} /\ Len(outcomes[c]) = Len(requests[c])) =>
            \/ promise[c].state = "resolved" /\ NonEmptyCredential(promise[c].value)
            \/ promise[c].state = "rejected" /\ promise[c].value.type = "error"

\* C4: when the silent acquisition raises "interaction required" and the type
\* is Popup, the call makes exactly one popup request, carrying the configured
\* scopes; a non-empty popup credential resolves the call with that credential
\* and an empty one (no error raised) rejects it with AcquisitionFailed.
C4_PopupFallback ==
    \A c \in Calls :
        (/\ SilentDone(c)
         /\ RaisedInteractionRequired(outcomes[c][1])
         /\ providerOptions.interactionType = Popup) =>
            /\ RequestsOfKind(c, "popup") = {2}
            /\ RequestsOfKind(c, "redirect") = {}
            /\ requests[c][2].scopes = providerOptions.scopes
            /\ (Len(outcomes[c]) = 2 /\ ReturnedToken(outcomes[c][2])) =>
                   promise[c] = Resolved(outcomes[c][2].value.accessToken)
            /\ (Len(outcomes[c]) = 2 /\ ReturnedEmpty(outcomes[c][2])) =>
                   AcquisitionFailed(c)

C4_Witness ==
    \E c, d \in Calls :
        /\ PopupDone(c)
        /\ RaisedInteractionRequired(outcomes[c][1])
        /\ outcomes[c][2] = Fulfilled(AuthResult(Str("xyz")))
        /\ promise[c] = Resolved(Str("xyz"))
        /\ PopupDone(d)
        /\ RaisedInteractionRequired(outcomes[d][1])
        /\ outcomes[d][2] = Fulfilled(AuthResult(Str("")))
        /\ AcquisitionFailed(d)

\* C5: when the silent acquisition returns a result with an empty credential
\* and raises nothing, the call is rejected with AcquisitionFailed and makes
\* neither a popup nor a redirect request, whatever the interactionType.
C5_SilentEmptyRejects ==
    \A c \in Calls :
        (SilentDone(c) /\ ReturnedEmpty(outcomes[c][1])) =>
            /\ AcquisitionFailed(c)
            /\ Len(requests[c]) = 1
            /\ RequestsOfKind(c, "popup") \cup RequestsOfKind(c, "redirect") = {}

C5_Witness ==
    /\ providerOptions.interactionType = Popup
    /\ \E c \in Calls :
         /\ outcomes[c] = <<Fulfilled(AuthResult(Str("")))>>
         /\ AcquisitionFailed(c)
         /\ pc[c] = "returned"

\* C6: when the silent acquisition raises "interaction required" and the type
\* is Redirect, the call makes exactly one redirect request, carrying the
\* configured scopes, makes no popup request, and its promise stays pending in
\* every later state: resolve() and reject() are never invoked.
C6_RedirectSuspends ==
    \A c \in Calls :
        (/\ SilentDone(c)
         /\ RaisedInteractionRequired(outcomes[c][1])
         /\ providerOptions.interactionType = Redirect) =>
            /\ RequestsOfKind(c, "redirect") = {2}
            /\ RequestsOfKind(c, "popup") = {}
            /\ Len(requests[c]) = 2
            /\ requests[c][2].scopes = providerOptions.scopes
            /\ promise[c] = Pending
            /\ settleCount[c] = 0

C6_Witness ==
    \E c \in Calls :
        /\ providerOptions.interactionType = Redirect
        /\ Len(outcomes[c]) = 2
        /\ RaisedInteractionRequired(outcomes[c][1])
        /\ RequestsOfKind(c, "redirect") = {2}
        /\ promise[c] = Pending

\* the request whose result the call resolved with
SourceRequests(c) ==
    {i \in 1..Len(outcomes[c]) :
        /\ outcomes[c][i].status = "fulfilled"
        /\ outcomes[c][i].value = AuthResult(promise[c].value)}

\* C7 (as stated): a call that settled successfully holds a non-empty
\* credential obtained from a request made for exactly the configured account
\* and exactly the configured scopes, on the silent and on the popup path.
C7_IssuedForAccountAndScopes ==
    \A c \in Calls :
        promise[c].state = "resolved" =>
            /\ NonEmptyCredential(promise[c].value)
            /\ \E i \in SourceRequests(c) :
                 /\ requests[c][i].account = providerOptions.account
                 /\ requests[c][i].scopes = providerOptions.scopes

\* C7 (amended): a call that settled successfully holds a non-empty credential
\* obtained from its last request, which carries exactly the configured
\* scopes; the silent request also carries exactly the configured account,
\* while the popup request carries no account.
C7_IssuedForScopes ==
    \A c \in Calls :
        promise[c].state = "resolved" =>
            /\ NonEmptyCredential(promise[c].value)
            /\ Len(requests[c]) \in SourceRequests(c)
            /\ LET r == requests[c][Len(requests[c])]
               IN  /\ r.scopes = providerOptions.scopes
                   /\ r.kind \in {"silent", "popup"}
                   /\ r.kind = "silent" => r.account = providerOptions.account
                   /\ r.kind = "popup" => r.account = Absent

C7_Witness ==
    \E c, d \in Calls :
        /\ promise[c].state = "resolved"
        /\ requests[c][Len(requests[c])].kind = "popup"
        /\ promise[d].state = "resolved"
        /\ Len(requests[d]) = 1

\* C8: the adapter holds its three configuration fields and nothing else, so
\* no credential; every call that has started has made its own silent request
\* and a call only ever resolves with a credential one of its own requests
\* returned, never with one kept from an earlier call.
C8_NoCredentialKept ==
    /\ DOMAIN adapter = {"account", "scopes", "interactionType"}
    /\ adapter.account \in Accounts
    /\ adapter.scopes \in ScopeSets
    /\ adapter.interactionType \in InteractionTypes
    /\ \A c \in Calls :
         /\ Started(c) => RequestsOfKind(c, "silent") = {1}
         /\ promise[c].state = "resolved" => SourceRequests(c) # {}

C8_Witness ==
    /\ promise[1] = Resolved(Str("abc"))
    /\ promise[2] = Resolved(Str("xyz"))
    /\ outcomes[1] = <<Fulfilled(AuthResult(Str("abc")))>>
    /\ outcomes[2] = <<Fulfilled(AuthResult(Str("xyz")))>>
    /\ RequestsOfKind(1, "silent") = {1}
    /\ RequestsOfKind(2, "silent") = {1}

\* C9: a caller only ever observes a resolved non-empty credential, a
\* rejection with AcquisitionFailed or a rejection with
\* InteractiveAcquisitionFailed; the error the silent acquisition raised is
\* never what the promise is rejected with.
C9_OnlyDefinedOutcomes ==
    \A c \in Calls :
        /\ promise[c].state = "resolved" => NonEmptyCredential(promise[c].value)
        /\ promise[c].state = "rejected" =>
              AcquisitionFailed(c) \/ InteractiveAcquisitionFailed(c)
        /\ (SilentDone(c) /\ outcomes[c][1].status = "rejected") =>
              promise[c] # Rejected(outcomes[c][1].value)

C9_Witness ==
    \E c, d \in Calls :
        /\ outcomes[c] = <<Raised(JsError("BrowserAuthError", "popup_window_error"))>>
        /\ pc[c] = "returned"
        /\ promise[c] = Pending
        /\ AcquisitionFailed(d)

\* every started call has made exactly one silent request of its own, and a
\* settled call reflects the result of its own last request
C10_OwnRequests ==
    \A c \in Calls :
        /\ Started(c) <=> RequestsOfKind(c, "silent") = {1}
        /\ ~Started(c) => requests[c] = <<>> /\ outcomes[c] = <<>>
        /\ promise[c].state = "resolved" =>
              /\ Len(outcomes[c]) = Len(requests[c])
              /\ outcomes[c][Len(outcomes[c])] = Fulfilled(AuthResult(promise[c].value))
        /\ promise[c].state = "rejected" =>
              /\ Len(outcomes[c]) = Len(requests[c])
              /\ ReturnedEmpty(outcomes[c][Len(outcomes[c])])

\* a step that changes anything of one call leaves every other call alone
C10_OneCallPerStep ==
    \A c, d \in Calls :
        (c # d /\ <<pc[c], promise[c], requests[c], outcomes[c]>>' #
                  <<pc[c], promise[c], requests[c], outcomes[c]>>) =>
            <<pc[d], promise[d], requests[d], outcomes[d]>>' =
            <<pc[d], promise[d], requests[d], outcomes[d]>>

\* C10: concurrent calls are neither coordinated nor deduplicated: under
\* every interleaving each call in flight has made its own silent request,
\* settles only from the results of its own requests, and no step of one call
\* changes another call.
C10_CallsIndependent == []C10_OwnRequests /\ [][C10_OneCallPerStep]_vars

C10_Witness ==
    /\ pc[1] = "awaitSilent"
    /\ pc[2] = "awaitSilent"
    /\ Len(requests[1]) = 1
    /\ Len(requests[2]) = 1
    /\ outcomes[1] = <<>>
    /\ outcomes[2] = <<>>

\* the silent acquisition raised an error that is not "interaction required"
RaisedOtherError(o) ==
    /\ o.status = "rejected"
    /\ o.value.name # "InteractionRequiredAuthError"

C13_UndefinedResultRejects ==
    \A c \in Calls :
        (SilentDone(c) /\ outcomes[c][1] = Fulfilled(Undefined)) =>
            AcquisitionFailed(c)

\* C14: within one call the requests are sequential and at most two: the
\* first is the one silent request; a second one exists only once the silent
\* request has settled with "interaction required", and it is the single
\* popup or redirect request; while the silent request is pending no other
\* request has been made.
C14_SequentialRequests ==
    \A c \in Calls :
        /\ Len(requests[c]) <= 2
        /\ Started(c) => RequestsOfKind(c, "silent") = {1}
        /\ pc[c] = "awaitSilent" => Len(requests[c]) = 1 /\ outcomes[c] = <<>>
        /\ Len(requests[c]) = 2 =>
              /\ SilentDone(c)
              /\ RaisedInteractionRequired(outcomes[c][1])
              /\ requests[c][2].kind \in {"popup", "redirect"}
        /\ Cardinality(RequestsOfKind(c, "popup") \cup RequestsOfKind(c, "redirect")) <= 1

C14_Witness ==
    \E c, d \in Calls :
        /\ pc[c] = "awaitPopup"
        /\ Len(requests[c]) = 2
        /\ Len(outcomes[c]) = 1
        /\ RaisedInteractionRequired(outcomes[c][1])
        /\ pc[d] = "awaitSilent"
        /\ Len(requests[d]) = 1

\* the adapter holds what it was constructed with, and every request made so
\* far carries the configured scopes, every silent request the configured
\* account
C15_ConfigurationInUse ==
    /\ adapter.account = providerOptions.account
    /\ adapter.scopes = providerOptions.scopes
    /\ adapter.interactionType = providerOptions.interactionType
    /\ \A c \in Calls : \A i \in 1..Len(requests[c]) :
         /\ requests[c][i].scopes = providerOptions.scopes
         /\ requests[c][i].kind = "silent" =>
               requests[c][i].account = providerOptions.account

\* no step assigns a field of the adapter
C15_NoAssignment == adapter' = adapter /\ providerOptions' = providerOptions

\* C15: account, scopes and interactionType are set once at construction and
\* no getAccessToken call changes them on any path, so all calls of the
\* adapter make their requests with the same account and scopes.
C15_ConfigurationImmutable ==
    []C15_ConfigurationInUse /\ [][C15_NoAssignment]_vars

C15_Witness ==
    \E c, d \in Calls :
        /\ promise[c].state = "resolved"
        /\ promise[d].state = "rejected"
        /\ Len(requests[c]) = 2
        /\ adapter = MsalAuthenticationProvider(providerOptions)
        /\ requests[c][1] = requests[d][1]

\* resolve()/reject() was invoked at most once, exactly when the promise is
\* settled, and the executor of a settled promise has ended
C16_SettledOnce ==
    \A c \in Calls :
        /\ settleCount[c] <= 1
        /\ promise[c].state # "pending" <=> settleCount[c] = 1
        /\ promise[c].state # "pending" =>
              pc[c] = "returned" /\ Len(outcomes[c]) = Len(requests[c])

\* a settled promise never changes and its call makes no further request
C16_SettledIsFinal ==
    \A c \in Calls :
        promise[c].state # "pending" =>
            /\ promise'[c] = promise[c]
            /\ requests'[c] = requests[c]
            /\ settleCount'[c] = settleCount[c]

\* C16: every call settles at most once: its promise is never both resolved
\* and rejected nor settled a second time, and the call makes no request
\* after its promise has settled.
C16_SettlesAtMostOnce == []C16_SettledOnce /\ [][C16_SettledIsFinal]_vars

C16_Witness ==
    \E c, d \in Calls :
        /\ promise[c].state = "resolved"
        /\ settleCount[c] = 1
        /\ Len(requests[c]) = 2
        /\ promise[d].state = "rejected"
        /\ settleCount[d] = 1

\* the redirect request of a call has settled
RedirectDone(c) == RequestsOfKind(c, "redirect") = {2} /\ Len(outcomes[c]) = 2

\* once the redirect request is made the executor has ended with the promise
\* pending, and it stays so after the request has settled
C17_RedirectLeftPending ==
    \A c \in Calls :
        RequestsOfKind(c, "redirect") # {} =>
            /\ pc[c] = "returned"
            /\ promise[c] = Pending
            /\ settleCount[c] = 0

\* the step in which the redirect request settles, either way, changes
\* nothing of the call but the recorded result
C17_ResultIgnored ==
    \A c \in Calls :
        (RequestsOfKind(c, "redirect") # {} /\ outcomes'[c] # outcomes[c]) =>
            /\ pc'[c] = pc[c]
            /\ promise'[c] = promise[c]
            /\ settleCount'[c] = settleCount[c]
            /\ requests'[c] = requests[c]

====
